---- MODULE Spec2Model ----
(***************************************************************************)
(* A model of utils.py, the H-Edit storage-format utilities: the HDict     *)
(* document wrapper (connected, as_hypergraph, node_types,                 *)
(* synthesize_structure, as_objects behind the allow_in mode gate) and the *)
(* module-level helpers edge_ids, maybe_duplicate, maybe_single and        *)
(* maybe_cycle_elem.                                                       *)
(*                                                                         *)
(* Encoding of Python values.  An Id is "either integer or (Id, Id)".      *)
(*   integer n        is the 1-tuple  <<n>>                                *)
(*   edge (s, d)      is the 2-tuple  <<s, d>>  of two encoded Ids         *)
(*   None             is the 0-tuple  <<>>                                 *)
(* so isinstance(x, int) is Len(x) = 1 and isinstance(x, tuple) is         *)
(* Len(x) = 2, and == on Ids is = on their encodings.                      *)
(***************************************************************************)
EXTENDS Integers, Sequences, FiniteSets, TLC

VARIABLES data, conn, mode, input, op, args, out

vars == <<data, conn, mode, input, op, args, out>>

----------------------------------------------------------------------------
(* Python values *)

None == <<>>

IsInt(x) == Len(x) = 1

IsTuple(x) == Len(x) = 2

\* bool(x) for an Id or None: None and the integer 0 are falsy, a pair is not.
Truthy(x) == x # None /\ x # <<0>>

\* a or b
PyOr(a, b) == IF Truthy(a) THEN a ELSE b

BoundedSeq(S, n) == UNION {[1..k -> S] : k \in 0..n}

Range(f) == {f[i] : i \in DOMAIN f}

\* map(itemgetter(i), it), i counted from 1
Column(it, i) == [k \in 1..Len(it) |-> it[k][i]]

\* The values of a finite set of integer-coded ids in ascending order.
RECURSIVE SortedSeq(_)
SortedSeq(S) ==
    IF S = {} THEN <<>>
    ELSE LET m == CHOOSE x \in S : \A y \in S : x[1] <= y[1]
         IN <<m>> \o SortedSeq(S \ {m})

----------------------------------------------------------------------------
(* edge_ids *)

RECURSIVE edge_ids(_, _)
edge_ids(e, flatten) ==
    LET s == e[1]
        d == e[2]
    IN (IF flatten \in {"incoming", "both"} /\ IsTuple(s)
          THEN edge_ids(s, "outgoing")
          ELSE <<s>>)
       \o
       (IF flatten \in {"outgoing", "both"} /\ IsTuple(d)
          THEN edge_ids(d, "outgoing")
          ELSE <<d>>)

----------------------------------------------------------------------------
(* maybe_duplicate, maybe_single *)

\* The loop of maybe_duplicate over the selected column ss_it.
RECURSIVE DuplicateScan(_, _, _)
DuplicateScan(ss_it, i, extrema) ==
    IF i > Len(ss_it) THEN None
    ELSE IF ss_it[i] \in extrema THEN ss_it[i]
    ELSE DuplicateScan(ss_it, i + 1, extrema \cup {ss_it[i]})

RECURSIVE maybe_duplicate(_, _)
maybe_duplicate(it, direction) ==
    IF direction = "either"
      THEN PyOr(maybe_duplicate(it, "incoming"), maybe_duplicate(it, "outgoing"))
      ELSE DuplicateScan(Column(it, IF direction = "incoming" THEN 1 ELSE 2), 1, {})

\* maybe_single with the comparison loop starting one element late.
RECURSIVE maybe_single_late(_, _)
maybe_single_late(it, direction) ==
    IF direction = "either"
      THEN PyOr(maybe_single_late(it, "incoming"), maybe_single_late(it, "outgoing"))
      ELSE LET ss_it == Column(it, IF direction = "incoming" THEN 1 ELSE 2)
               value == IF Len(ss_it) = 0 THEN None ELSE ss_it[1]
           IN IF \E k \in 3..Len(ss_it) : ss_it[k] # value THEN None ELSE value

RECURSIVE maybe_single(_, _)
maybe_single(it, direction) ==
    IF direction = "either"
      THEN PyOr(maybe_single(it, "incoming"), maybe_single(it, "outgoing"))
      ELSE LET ss_it == Column(it, IF direction = "incoming" THEN 1 ELSE 2)
               value == IF Len(ss_it) = 0 THEN None ELSE ss_it[1]
           IN IF \E k \in 2..Len(ss_it) : ss_it[k] # value THEN None ELSE value

----------------------------------------------------------------------------
(* maybe_cycle_elem *)

\* reachable is a defaultdict(set): here the sequence of its items
\* [k |-> key, v |-> set] in insertion order.
HasKey(reachable, k) == \E i \in 1..Len(reachable) : reachable[i].k = k

KeyIndex(reachable, k) == CHOOSE i \in 1..Len(reachable) : reachable[i].k = k

\* reachable[k] as an access: a missing key is inserted with an empty set.
Touch(reachable, k) ==
    IF HasKey(reachable, k) THEN reachable
    ELSE Append(reachable, [k |-> k, v |-> {}])

Get(reachable, k) == reachable[KeyIndex(reachable, k)].v

\* reachable[k].update(more)
Update(reachable, i, more) ==
    [reachable EXCEPT ![i] = [k |-> reachable[i].k, v |-> reachable[i].v \cup more]]

\* CycleInner testing "d in bs" where the code tests "a in reachable[d]".
RECURSIVE CycleInnerForward(_, _, _, _, _)
CycleInnerForward(reachable, i, n, s, d) ==
    IF i > n THEN [ret |-> None, reachable |-> reachable]
    ELSE LET a == reachable[i].k
             bs == reachable[i].v
         IN IF s \in bs
              THEN LET r1 == IF a = d THEN reachable ELSE Touch(reachable, d)
                   IN IF a = d \/ d \in bs
                        THEN [ret |-> <<s, d>>, reachable |-> r1]
                        ELSE CycleInnerForward(Update(r1, i, {d} \cup Get(r1, d)),
                                               i + 1, n, s, d)
              ELSE CycleInnerForward(reachable, i + 1, n, s, d)

\* for a, bs in list(reachable.items()): the n items present when the loop
\* starts, read through their live sets.
RECURSIVE CycleInner(_, _, _, _, _)
CycleInner(reachable, i, n, s, d) ==
    IF i > n THEN [ret |-> None, reachable |-> reachable]
    ELSE LET a == reachable[i].k
             bs == reachable[i].v
         IN IF s \in bs
              THEN LET r1 == IF a = d THEN reachable ELSE Touch(reachable, d)
                   IN IF a = d \/ a \in Get(r1, d)
                        THEN [ret |-> <<s, d>>, reachable |-> r1]
                        ELSE CycleInner(Update(r1, i, {d} \cup Get(r1, d)),
                                        i + 1, n, s, d)
              ELSE CycleInner(reachable, i + 1, n, s, d)

\* for s, d in it
RECURSIVE CycleLoop(_, _, _)
CycleLoop(reachable, it, j) ==
    IF j > Len(it) THEN None
    ELSE LET s == it[j][1]
             d == it[j][2]
             r0 == Touch(reachable, s)
             r1 == Update(r0, KeyIndex(r0, s), {d})
             res == CycleInner(r1, 1, Len(r1), s, d)
         IN IF res.ret # None THEN res.ret
            ELSE CycleLoop(res.reachable, it, j + 1)

maybe_cycle_elem(it) == CycleLoop(<<>>, it, 1)

----------------------------------------------------------------------------
(* HDict: the document {data: [{data: str, id: int}, ...], conn: [(Id, Id), ...]} *)
(* with an optional mode.  data and conn are the variables of those names; *)
(* mode is <<>> when the key is absent and <<m>> when the document declares *)
(* mode m.  A call's outcome is a value or a raised exception.              *)

Return(v) == [raised |-> "", value |-> v]

Raise(exception) == [raised |-> exception, value |-> None]

\* allow_in without the "'mode' not in ins" alternative.
allow_in_declared(modes, method) ==
    IF mode # <<>> /\ mode[1] \in modes
      THEN method
      ELSE Raise("ValueError")

\* The decorator: the method runs if the document has no mode or one of modes.
allow_in(modes, method) ==
    IF mode = <<>> \/ mode[1] \in modes
      THEN method
      ELSE Raise("ValueError")

\* for node in self['data']: if fits(node) and all(criteria): yield node
find_nodes(fits, criteria) ==
    SelectSeq(data, LAMBDA node :
        /\ fits[node]
        /\ \A name \in DOMAIN criteria :
               name \in DOMAIN node /\ node[name] = criteria[name])

\* The default fits = lambda n: True
AnyNode == [n \in Range(data) |-> TRUE]

\* get_info(node_ids, 'id', 'data') and get_info(node_ids, 'data', 'id') and
\* get_info(node_ids, 'data'): the fields of each node in turn, KeyError at
\* the first id that is no node.
RECURSIVE get_info(_, _)
get_info(node_ids, fields) ==
    IF node_ids = <<>> THEN Return(<<>>)
    ELSE LET found == find_nodes(AnyNode, [id |-> Head(node_ids)])
         IN IF found = <<>> THEN Raise("KeyError")
            ELSE LET n == Head(found)
                     item == IF Len(fields) = 1 THEN n[fields[1]]
                             ELSE [k \in 1..Len(fields) |-> n[fields[k]]]
                     rest == get_info(Tail(node_ids), fields)
                 IN IF rest.raised # "" THEN rest
                    ELSE Return(<<item>> \o rest.value)

\* The loop of connected over self['conn'] from index i on.
RECURSIVE connected(_, _, _, _)
RECURSIVE ConnectedScan(_, _, _, _, _)
ConnectedScan(i, item_id, via_ids, returns, direction) ==
    IF i > Len(conn) THEN <<>>
    ELSE LET e == conn[i]
             src == IF direction = "outgoing" THEN e[1] ELSE e[2]
             dst == IF direction = "outgoing" THEN e[2] ELSE e[1]
             to_node == IsInt(dst)
             rest == ConnectedScan(i + 1, item_id, via_ids, returns, direction)
         IN IF src # item_id THEN rest
            ELSE IF (returns = "edges" /\ to_node) \/ (returns = "nodes" /\ ~to_node)
              THEN rest
            ELSE IF \A v \in 1..Len(via_ids) :
                      \E k \in DOMAIN connected(via_ids[v], <<>>, "both", "outgoing") :
                          e = connected(via_ids[v], <<>>, "both", "outgoing")[k]
              THEN <<dst>> \o rest
            ELSE rest

\* connected yielding the outgoing half of 'either' first.
connected_swapped(item_id, via_ids, returns, direction) ==
    IF direction = "either"
      THEN ConnectedScan(1, item_id, via_ids, returns, "outgoing")
           \o ConnectedScan(1, item_id, via_ids, returns, "incoming")
      ELSE ConnectedScan(1, item_id, via_ids, returns, direction)

connected(item_id, via_ids, returns, direction) ==
    IF direction = "either"
      THEN connected(item_id, via_ids, returns, "incoming")
           \o connected(item_id, via_ids, returns, "outgoing")
      ELSE ConnectedScan(1, item_id, via_ids, returns, direction)

\* HypergraphScan looking for edges leaving e where the code looks for
\* edges pointing to e.
RECURSIVE HypergraphScanOutgoing(_, _)
HypergraphScanOutgoing(i, remove_subsumed) ==
    IF i > Len(conn) THEN <<>>
    ELSE LET e == conn[i]
             rest == HypergraphScanOutgoing(i + 1, remove_subsumed)
         IN IF ~remove_subsumed \/ connected(e, <<>>, "both", "outgoing") = <<>>
              THEN <<edge_ids(e, "outgoing")>> \o rest
              ELSE rest

\* [tuple(edge_ids(e)) for e in self['conn'] if not remove_subsumed or ...]
RECURSIVE HypergraphScan(_, _)
HypergraphScan(i, remove_subsumed) ==
    IF i > Len(conn) THEN <<>>
    ELSE LET e == conn[i]
             rest == HypergraphScan(i + 1, remove_subsumed)
         IN IF ~remove_subsumed \/ connected(e, <<>>, "both", "incoming") = <<>>
              THEN <<edge_ids(e, "outgoing")>> \o rest
              ELSE rest

as_hypergraph(remove_subsumed) ==
    allow_in({"T", "property_graph", "edge_colored_graph", "graph"},
             Return(HypergraphScan(1, remove_subsumed)))

\* match_zero(**way)(node)
match_zero(returns, direction, node) ==
    connected(node.id, <<>>, returns, direction) = <<>>

id_set(it) == {it[i].id : i \in 1..Len(it)}

\* node_types with type_3 not cleared of the disconnected nodes.
NodeTypesBodyKeepingDisconnected ==
    LET no_incoming == id_set(find_nodes([n \in Range(data) |-> match_zero("both", "incoming", n)], <<>>))
        no_outgoing == id_set(find_nodes([n \in Range(data) |-> match_zero("both", "outgoing", n)], <<>>))
        only_to_nodes == id_set(find_nodes([n \in Range(data) |-> match_zero("edges", "outgoing", n)], <<>>))
        only_to_edges == id_set(find_nodes([n \in Range(data) |-> match_zero("nodes", "outgoing", n)], <<>>))
        disconnected_nodes == id_set(find_nodes([n \in Range(data) |-> match_zero("both", "either", n)], <<>>))
        type_1 == ((no_incoming \cup no_outgoing) \cap only_to_nodes) \ disconnected_nodes
        type_2 == (no_incoming \cap only_to_edges) \ disconnected_nodes
        type_3 == (id_set(data) \ type_1) \ type_2
    IN IF type_1 \cap type_2 = {} /\ type_2 \cap type_3 = {} /\ type_3 \cap type_1 = {}
         THEN Return(<<type_1, type_2, type_3>>)
         ELSE Raise("AssertionError")

NodeTypesBody ==
    LET no_incoming == id_set(find_nodes([n \in Range(data) |-> match_zero("both", "incoming", n)], <<>>))
        no_outgoing == id_set(find_nodes([n \in Range(data) |-> match_zero("both", "outgoing", n)], <<>>))
        only_to_nodes == id_set(find_nodes([n \in Range(data) |-> match_zero("edges", "outgoing", n)], <<>>))
        only_to_edges == id_set(find_nodes([n \in Range(data) |-> match_zero("nodes", "outgoing", n)], <<>>))
        disconnected_nodes == id_set(find_nodes([n \in Range(data) |-> match_zero("both", "either", n)], <<>>))
        type_1 == ((no_incoming \cup no_outgoing) \cap only_to_nodes) \ disconnected_nodes
        type_2 == (no_incoming \cap only_to_edges) \ disconnected_nodes
        type_3 == ((id_set(data) \ type_1) \ type_2) \ disconnected_nodes
    IN IF type_1 \cap type_2 = {} /\ type_2 \cap type_3 = {} /\ type_3 \cap type_1 = {}
         THEN Return(<<type_1, type_2, type_3>>)
         ELSE Raise("AssertionError")

node_types == allow_in({"property_graph", "edge_colored_graph"}, NodeTypesBody)

\* f"List[{base_type}]"
ListOf(base_type) == IF base_type = "str" THEN "List[str]" ELSE "List[Item]"

\* typing.get_type_hints resolves the annotation strings; proper_collection(T)
\* and collection_of(T, cls) on the resolved types of a synthesized class.
proper_collection(T) == T \in {"List[str]", "List[Item]"}

collection_of(T) == T = "List[Item]"

\* SynthesizeField looking for the duplicate on the side away from the items.
SynthesizeFieldValueSide(i, node_data, type_3) ==
    LET es == connected(i, <<>>, "both", "outgoing")
    IN IF es = <<>> THEN Raise("ValueError")
       ELSE IF \E k \in 1..Len(es) : ~IsTuple(es[k]) THEN Raise("TypeError")
       ELSE LET s_items == type_3 \cap Range(Column(es, 1))
                d_items == type_3 \cap Range(Column(es, 2))
                between_items == s_items # {} /\ d_items # {}
                item_direction == IF between_items THEN "either"
                                  ELSE IF d_items # {} THEN "incoming" ELSE "outgoing"
                sole == maybe_duplicate(es, item_direction) = None
                base_type == IF between_items THEN "Item" ELSE "str"
                field_type == IF sole THEN base_type ELSE ListOf(base_type)
            IN Return([name |-> node_data, type |-> field_type])

\* The body of the loop of synthesize_structure for the type 2 node (i, data):
\* the field it appends, or the exception the unpacking raises.
SynthesizeField(i, node_data, type_3) ==
    LET es == connected(i, <<>>, "both", "outgoing")
    IN IF es = <<>> THEN Raise("ValueError")
       ELSE IF \E k \in 1..Len(es) : ~IsTuple(es[k]) THEN Raise("TypeError")
       ELSE LET s_items == type_3 \cap Range(Column(es, 1))
                d_items == type_3 \cap Range(Column(es, 2))
                between_items == s_items # {} /\ d_items # {}
                item_direction == IF between_items THEN "either"
                                  ELSE IF d_items # {} THEN "outgoing" ELSE "incoming"
                sole == maybe_duplicate(es, item_direction) = None
                base_type == IF between_items THEN "Item" ELSE "str"
                field_type == IF sole THEN base_type ELSE ListOf(base_type)
            IN Return([name |-> node_data, type |-> field_type])

\* for i, data in self.get_info(type_2, 'id', 'data'), over the ids of type_2
\* in iteration order, from fs on.
RECURSIVE SynthesizeLoop(_, _, _)
SynthesizeLoop(ids, type_3, fs) ==
    IF ids = <<>> THEN Return(fs)
    ELSE LET info == get_info(<<Head(ids)>>, <<"id", "data">>)
         IN IF info.raised # "" THEN info
            ELSE LET f == SynthesizeField(info.value[1][1], info.value[1][2], type_3)
                 IN IF f.raised # "" THEN f
                    ELSE SynthesizeLoop(Tail(ids), type_3, Append(fs, f.value))

\* make_dataclass(name, fs) rejects a repeated field name.
make_dataclass(name, fs) ==
    IF \E i, j \in 1..Len(fs) : i # j /\ fs[i].name = fs[j].name
      THEN Raise("TypeError")
      ELSE Return([name |-> name, fields |-> fs])

SynthesizeStructureBody(type_1, type_2, type_3) ==
    LET name == "Item"
        fs == <<[name |-> "id", type |-> "int"], [name |-> "data", type |-> "str"]>>
        looped == SynthesizeLoop(SortedSeq(type_2), type_3, fs)
    IN IF looped.raised # "" THEN looped
       ELSE make_dataclass(name, looped.value)

synthesize_structure(type_1, type_2, type_3) ==
    allow_in({"property_graph", "edge_colored_graph"},
             SynthesizeStructureBody(type_1, type_2, type_3))

\* dict(pairs)[key]: the value of the last pair with that key.
DictGet(pairs, key) ==
    pairs[CHOOSE i \in 1..Len(pairs) :
              /\ pairs[i][1] = key
              /\ \A j \in (i + 1)..Len(pairs) : pairs[j][1] # key][2]

DictHas(pairs, key) == \E i \in 1..Len(pairs) : pairs[i][1] = key

\* map(id_object.__getitem__, ids): references to the objects, KeyError at the
\* first id that is no key.
RECURSIVE ObjectsOf(_, _)
ObjectsOf(ids, keys) ==
    IF ids = <<>> THEN Return(<<>>)
    ELSE IF Head(ids) \notin keys THEN Raise("KeyError")
    ELSE LET rest == ObjectsOf(Tail(ids), keys)
         IN IF rest.raised # "" THEN rest
            ELSE Return(<<[ref |-> Head(ids)]>> \o rest.value)

\* The value set on object o for the field (d, T): prs, or the exception.
ObjectField(o_id, via, T, keys) ==
    LET ids == connected(o_id, <<via>>, "both", "outgoing")
        wanted == IF proper_collection(T) THEN ids
                  ELSE IF ids = <<>> THEN <<>> ELSE <<Head(ids)>>
        ins == IF collection_of(T) THEN ObjectsOf(wanted, keys)
               ELSE get_info(wanted, <<"data">>)
    IN IF ~proper_collection(T) /\ ids = <<>> THEN Raise("StopIteration")
       ELSE IF ins.raised # "" THEN ins
       ELSE IF proper_collection(T) THEN ins ELSE Return(ins.value[1])

\* for i, o in id_object.items(): setattr(o, d, prs), from object k on.
RECURSIVE SetFieldLoop(_, _, _, _, _)
SetFieldLoop(objects, k, d, via, T) ==
    IF k > Len(objects) THEN Return(objects)
    ELSE LET prs == ObjectField(objects[k].id, via, T, id_set(objects))
         IN IF prs.raised # "" THEN prs
            ELSE SetFieldLoop(
                   [objects EXCEPT ![k] =
                       [id |-> objects[k].id, data |-> objects[k].data,
                        attrs |-> (d :> prs.value) @@ objects[k].attrs]],
                   k + 1, d, via, T)

\* for d, T in typing.get_type_hints(cls, ...).items(), from field f on.
RECURSIVE HintLoop(_, _, _, _)
HintLoop(objects, fields, f, prop_id) ==
    IF f > Len(fields) THEN Return(objects)
    ELSE IF ~DictHas(prop_id, fields[f].name)
      THEN HintLoop(objects, fields, f + 1, prop_id)
    ELSE LET done == SetFieldLoop(objects, 1, fields[f].name,
                                  DictGet(prop_id, fields[f].name), fields[f].type)
         IN IF done.raised # "" THEN done
            ELSE HintLoop(done.value, fields, f + 1, prop_id)

AsObjectsBody(type_1, type_2, type_3, cls) ==
    LET prop_id == get_info(SortedSeq(type_2), <<"data", "id">>)
        made == get_info(SortedSeq(type_3), <<"id", "data">>)
    IN IF prop_id.raised # "" THEN prop_id
       ELSE IF made.raised # "" THEN made
       ELSE LET id_object == [k \in 1..Len(made.value) |->
                                 [id |-> made.value[k][1], data |-> made.value[k][2],
                                  attrs |-> <<>>]]
            IN HintLoop(id_object, cls.fields, 1, prop_id.value)

as_objects(type_1, type_2, type_3, cls) ==
    allow_in({"property_graph", "edge_colored_graph"},
             AsObjectsBody(type_1, type_2, type_3, cls))

----------------------------------------------------------------------------
(* Bounds *)

\* maybe_duplicate / maybe_single inputs: integer ids 0..MaxPredId, at most
\* MaxPredLen edges.
MaxPredId == 1

MaxPredLen == 3

\* edge_ids inputs: leaves 0..MaxLeafId, nesting depth at most MaxDepth.
MaxLeafId == 1

MaxDepth == 3

\* maybe_cycle_elem inputs: node ids 1..MaxCycleNode, at most MaxCycleLen edges.
MaxCycleNode == 4

MaxCycleLen == 4

\* The smaller instance of the same inputs used for the exhaustive check of
\* the soundness of a reported pair.
MaxDagNode == 4

MaxDagLen == 3

\* Documents: node ids 0..MaxNode, at most MaxConn edges.
MaxNode == 1

MaxConn == 2

\* Documents queried with connected: node ids 0..MaxQueryNode, at most
\* MaxQueryConn edges, at most MaxVia via ids.
MaxQueryNode == 0

MaxQueryConn == 2

MaxVia == 1

\* Property-graph documents: item and tag nodes 0..MaxItem, one relation node,
\* at most MaxBase node-to-node edges.
MaxItem == 2

MaxBase == 3

Directions == {"incoming", "outgoing", "either"}

Returns == {"nodes", "edges", "both"}

\* modes of load_from_path
Modes == {"H", "T", "property_graph", "edge_colored_graph", "graph"}

\* The data strings of the nodes, by id.
Names == <<"a", "b", "c", "d", "e", "f", "g", "h">>

Flattens == {"incoming", "outgoing", "both"}

NodeRefs(lo, hi) == {<<n>> : n \in lo..hi}

\* Ids nested at most k levels over the given leaves.
RECURSIVE IdsUpTo(_, _)
IdsUpTo(leaves, k) ==
    IF k = 0 THEN leaves
    ELSE LET below == IdsUpTo(leaves, k - 1)
         IN leaves \cup (below \X below)

----------------------------------------------------------------------------
(* Documents *)

\* The nodes with ids 0..n.
Nodes(n) == [k \in 1..(n + 1) |-> [id |-> <<k - 1>>, data |-> Names[k]]]

\* Edges between nodes, and edges whose endpoints are nodes or such edges.
NodeEdges(n) == NodeRefs(0, n) \X NodeRefs(0, n)

EdgePool(n) == IdsUpTo(NodeRefs(0, n), 1) \X IdsUpTo(NodeRefs(0, n), 1)

\* Every edge used as an endpoint is itself in the edge sequence.
NoDangling(c) ==
    \A i \in 1..Len(c) : \A k \in 1..2 :
        IsTuple(c[i][k]) => \E j \in 1..Len(c) : c[j] = c[i][k]

\* conn is a sequence of at most len edges over the nodes 0..n.
ConnOver(n, len) ==
    \E k \in 0..len :
        /\ conn \in [1..k -> EdgePool(n)]
        /\ NoDangling(conn)

ModeChoices == {<<>>} \cup {<<m>> : m \in Modes}

\* The document of the helper specifications: an empty HDict, never read.

NoDocument ==
    /\ data = <<>>
    /\ conn = <<>>
    /\ mode = <<>>

NotCalled ==
    /\ op = "none"
    /\ args = <<>>
    /\ out = None

\* A behaviour constructs the document or the input and makes one call on
\* it; no operation writes the document, and none changes its argument.
DocUnchanged ==
    /\ op = "none"
    /\ UNCHANGED <<data, conn, mode, input>>

----------------------------------------------------------------------------
(* Specification of maybe_duplicate and maybe_single *)

PredEdges == NodeRefs(0, MaxPredId) \X NodeRefs(0, MaxPredId)

PredInit ==
    /\ NoDocument
    /\ input \in BoundedSeq(PredEdges, MaxPredLen)
    /\ NotCalled

MaybeDuplicate ==
    /\ DocUnchanged
    /\ \E direction \in Directions :
           /\ op' = "maybe_duplicate"
           /\ args' = [direction |-> direction]
           /\ out' = maybe_duplicate(input, direction)

MaybeSingle ==
    /\ DocUnchanged
    /\ \E direction \in Directions :
           /\ op' = "maybe_single"
           /\ args' = [direction |-> direction]
           /\ out' = maybe_single(input, direction)

PredNext == MaybeDuplicate \/ MaybeSingle

SpecPred == PredInit /\ [][PredNext]_vars

----------------------------------------------------------------------------
(* Specification of edge_ids *)

FlatInit ==
    /\ NoDocument
    /\ input \in LET ids == IdsUpTo(NodeRefs(0, MaxLeafId), MaxDepth - 1)
                 IN ids \X ids
    /\ NotCalled

EdgeIds ==
    /\ DocUnchanged
    /\ \E flatten \in Flattens :
           /\ op' = "edge_ids"
           /\ args' = [flatten |-> flatten]
           /\ out' = edge_ids(input, flatten)

FlatNext == EdgeIds

SpecFlat == FlatInit /\ [][FlatNext]_vars

----------------------------------------------------------------------------
(* Specifications of maybe_cycle_elem *)

CycleEdges(n) == NodeRefs(1, n) \X NodeRefs(1, n)

CycleInit ==
    /\ NoDocument
    /\ input \in BoundedSeq(CycleEdges(MaxCycleNode), MaxCycleLen)
    /\ NotCalled

DagInit ==
    /\ NoDocument
    /\ input \in BoundedSeq(CycleEdges(MaxDagNode), MaxDagLen)
    /\ NotCalled

MaybeCycleElem ==
    /\ DocUnchanged
    /\ op' = "maybe_cycle_elem"
    /\ args' = <<>>
    /\ out' = maybe_cycle_elem(input)

CycleNext == MaybeCycleElem

SpecCycle == CycleInit /\ [][CycleNext]_vars

SpecDag == DagInit /\ [][CycleNext]_vars

----------------------------------------------------------------------------
(* Specification of the mode-gated methods of a document *)

DocInit ==
    /\ data = Nodes(MaxNode)
    /\ ConnOver(MaxNode, MaxConn)
    /\ mode \in ModeChoices
    /\ input = <<>>
    /\ NotCalled

NodeTypes ==
    /\ DocUnchanged
    /\ op' = "node_types"
    /\ args' = <<>>
    /\ out' = node_types

\* synthesize_structure(*node_types()): the types are those of the document.
SynthesizeStructure ==
    /\ DocUnchanged
    /\ \E types \in {NodeTypesBody} :
         /\ types.raised = ""
         /\ \E t \in {types.value} :
              /\ args' = [type_1 |-> t[1], type_2 |-> t[2], type_3 |-> t[3]]
              /\ out' = synthesize_structure(t[1], t[2], t[3])
    /\ op' = "synthesize_structure"

\* as_objects(*types, synthesize_structure(*types))
AsObjects ==
    /\ DocUnchanged
    /\ \E types \in {NodeTypesBody} :
         /\ types.raised = ""
         /\ \E t \in {types.value} :
              \E cls \in {SynthesizeStructureBody(t[1], t[2], t[3])} :
                 /\ cls.raised = ""
                 /\ args' = [type_1 |-> t[1], type_2 |-> t[2], type_3 |-> t[3],
                             cls |-> cls.value]
                 /\ out' = as_objects(t[1], t[2], t[3], cls.value)
    /\ op' = "as_objects"

AsHypergraph ==
    /\ DocUnchanged
    /\ \E remove_subsumed \in BOOLEAN :
           /\ op' = "as_hypergraph"
           /\ args' = [remove_subsumed |-> remove_subsumed]
           /\ out' = as_hypergraph(remove_subsumed)

DocNext == NodeTypes \/ SynthesizeStructure \/ AsObjects \/ AsHypergraph

SpecDoc == DocInit /\ [][DocNext]_vars

----------------------------------------------------------------------------
(* Specification of connected *)

QueryInit ==
    /\ data = Nodes(MaxQueryNode)
    /\ ConnOver(MaxQueryNode, MaxQueryConn)
    /\ mode = <<>>
    /\ input = <<>>
    /\ NotCalled

\* item_id: a node of the document, the id after the last node, or an edge
\* between nodes, in the document or not.
Connected ==
    /\ DocUnchanged
    /\ \E item_id \in NodeRefs(0, MaxQueryNode + 1) \cup NodeEdges(MaxQueryNode),
          via_ids \in BoundedSeq(NodeRefs(0, MaxQueryNode), MaxVia),
          returns \in Returns,
          direction \in Directions :
           /\ op' = "connected"
           /\ args' = [item_id |-> item_id, via_ids |-> via_ids,
                       returns |-> returns, direction |-> direction]
           /\ out' = connected(item_id, via_ids, returns, direction)

QueryNext == Connected

SpecQuery == QueryInit /\ [][QueryNext]_vars

----------------------------------------------------------------------------
(* Specification of synthesize_structure on property graphs: node-to-node  *)
(* edges among the nodes 0..MaxItem, in ascending order, some of them      *)
(* tagged by the relation node MaxItem + 1, with no mode or a mode of the   *)
(* property-graph interpretation.                                          *)

Ascending(b) ==
    \A i \in 1..(Len(b) - 1) :
        \/ b[i][1][1] < b[i + 1][1][1]
        \/ b[i][1][1] = b[i + 1][1][1] /\ b[i][2][1] < b[i + 1][2][1]

\* The edges (p, base[j]) for the positions j of tagged, in order.
RECURSIVE TagEdges(_, _, _, _)
TagEdges(p, base, tagged, j) ==
    IF j > Len(base) THEN <<>>
    ELSE (IF j \in tagged THEN <<<<p, base[j]>>>> ELSE <<>>)
         \o TagEdges(p, base, tagged, j + 1)

SchemaInit ==
    /\ data = Nodes(MaxItem + 1)
    /\ \E base \in {b \in BoundedSeq(NodeEdges(MaxItem), MaxBase) : Ascending(b)} :
         \E tagged \in SUBSET (1..Len(base)) :
             conn = base \o TagEdges(<<MaxItem + 1>>, base, tagged, 1)
    /\ mode \in {<<>>, <<"property_graph">>, <<"edge_colored_graph">>}
    /\ input = <<>>
    /\ NotCalled

SchemaNext == SynthesizeStructure

SpecSchema == SchemaInit /\ [][SchemaNext]_vars

----------------------------------------------------------------------------
(* Vocabulary of the properties *)

Distinct(seq) == \A i, j \in 1..Len(seq) : i # j => seq[i] # seq[j]

AllEqual(seq) == \A i, j \in 1..Len(seq) : seq[i] = seq[j]

Successors(E, X) == {e[2] : e \in {f \in E : f[1] \in X}}

RECURSIVE Closure(_, _)
Closure(E, X) ==
    LET Y == X \cup Successors(E, X)
    IN IF Y = X THEN X ELSE Closure(E, Y)

\* What x reaches along one or more edges of the set E.
ReachableFrom(E, x) == Closure(E, Successors(E, {x}))

HasCycle(E) == \E e \in E : e[1] \in ReachableFrom(E, e[1])

Prefix(it, j) == {it[i] : i \in 1..j}

\* The first edge of the sequence whose addition closes a cycle.
FirstClosing(it) ==
    IF HasCycle(Range(it))
      THEN it[CHOOSE j \in 1..Len(it) :
                /\ HasCycle(Prefix(it, j))
                /\ ~HasCycle(Prefix(it, j - 1))]
      ELSE None

\* The unfolding in which every level unfolds the selected side(s).
RECURSIVE Unfold(_, _)
Unfold(e, flatten) ==
    (IF flatten \in {"incoming", "both"} /\ IsTuple(e[1])
       THEN Unfold(e[1], flatten) ELSE <<e[1]>>)
    \o
    (IF flatten \in {"outgoing", "both"} /\ IsTuple(e[2])
       THEN Unfold(e[2], flatten) ELSE <<e[2]>>)

\* The leaf node ids of an Id, left to right.
RECURSIVE Leaves(_)
Leaves(x) == IF IsInt(x) THEN <<x>> ELSE Leaves(x[1]) \o Leaves(x[2])

----------------------------------------------------------------------------
(* Properties of the helpers *)

\* C2: whenever the directed graph of the edge sequence has a cycle,
\* maybe_cycle_elem returns a pair, and that pair is the first edge of the
\* sequence whose addition closes a cycle among the edges seen so far.
C2_CycleAlwaysReported ==
    op = "maybe_cycle_elem" =>
        (HasCycle(Range(input)) => out # None /\ out = FirstClosing(input))

\* C3: on an acyclic edge sequence maybe_cycle_elem returns None; every pair
\* (s, d) it returns is an edge of the sequence such that s = d or d reaches s
\* through the edges processed before it.
C3_ReportedPairClosesCycle ==
    op = "maybe_cycle_elem" =>
        /\ ~HasCycle(Range(input)) => out = None
        /\ out # None =>
             \E j \in 1..Len(input) :
                 /\ input[j] = out
                 /\ \/ out[1] = out[2]
                    \/ out[1] \in ReachableFrom(Prefix(input, j - 1), out[2])

\* A reported pair that is no self-loop: it closes a cycle of two or more edges.
C3_Witness ==
    /\ op = "maybe_cycle_elem"
    /\ out # None
    /\ out[1] # out[2]

\* C4: maybe_duplicate returns None if and only if the values at the chosen
\* position are pairwise distinct (for 'either': among the sources and among
\* the destinations), id 0 included.
C4_DuplicateNoneIffDistinct ==
    op = "maybe_duplicate" =>
        (out = None <=>
            CASE args.direction = "incoming" -> Distinct(Column(input, 1))
              [] args.direction = "outgoing" -> Distinct(Column(input, 2))
              [] OTHER -> Distinct(Column(input, 1)) /\ Distinct(Column(input, 2)))

\* The values of the call's position, for 'incoming' and 'outgoing'.
SinglePosition == Column(input, IF args.direction = "incoming" THEN 1 ELSE 2)

\* C5 as stated: for 'incoming' and 'outgoing', maybe_single returns a
\* non-None value if and only if all values at the position are pairwise
\* equal, and the value returned is that common value.
C5_SingleIffAllEqual ==
    op = "maybe_single" /\ args.direction \in {"incoming", "outgoing"} =>
        /\ out # None <=> AllEqual(SinglePosition)
        /\ out # None => \A k \in 1..Len(input) : SinglePosition[k] = out

\* C5 amended: the same for every non-empty edge sequence; on the empty
\* sequence maybe_single returns None.
C5_SingleIffAllEqualNonEmpty ==
    op = "maybe_single" /\ args.direction \in {"incoming", "outgoing"} =>
        IF Len(input) = 0 THEN out = None
        ELSE /\ out # None <=> AllEqual(SinglePosition)
             /\ out # None => \A k \in 1..Len(input) : SinglePosition[k] = out

\* Several edges agreeing on the integer 0 at the position: 0 is returned.
C5_Witness ==
    /\ op = "maybe_single"
    /\ args.direction = "outgoing"
    /\ Len(input) >= 2
    /\ out = <<0>>

\* C6: edge_ids unfolds the selected side(s) at every nesting level: the
\* result is non-empty, with flatten = both it is the left-to-right sequence
\* of the leaf node ids, and in general the unfolding that passes flatten
\* down to every level.
C6_UnfoldsEveryLevel ==
    op = "edge_ids" =>
        /\ Len(out) > 0
        /\ out = Unfold(input, args.flatten)
        /\ args.flatten = "both" => out = Leaves(input)

----------------------------------------------------------------------------
(* Properties of the document methods *)

PropertyGraphModes == {"property_graph", "edge_colored_graph"}

HypergraphModes == {"T", "property_graph", "edge_colored_graph", "graph"}

Gated == {"node_types", "synthesize_structure", "as_objects"}

\* Some edge of the document starts or ends at id.
HasConnection(id) == \E i \in 1..Len(conn) : conn[i][1] = id \/ conn[i][2] = id

\* C1: in a document with unique node ids whose mode is absent or allowed,
\* node_types returns three pairwise disjoint sets whose union is exactly the
\* set of node ids with at least one incoming or outgoing connection (a node
\* with none is in no set), and the disjointness assertion does not fail.
C1_NodeTypesPartition ==
    op = "node_types" /\ (mode = <<>> \/ mode[1] \in PropertyGraphModes) =>
        /\ out.raised = ""
        /\ out.value[1] \cap out.value[2] = {}
        /\ out.value[2] \cap out.value[3] = {}
        /\ out.value[3] \cap out.value[1] = {}
        /\ out.value[1] \cup out.value[2] \cup out.value[3]
             = {data[k].id : k \in {j \in 1..Len(data) : HasConnection(data[j].id)}}

\* A classification with a relation node and an item node.
C1_Witness ==
    /\ op = "node_types"
    /\ out.raised = ""
    /\ out.value[2] # {}
    /\ out.value[3] # {}

\* The edge conn[i] seen from item_id in the given direction passes the
\* returns filter and is tagged by every via id.
Selected(i, direction) ==
    LET from == IF direction = "outgoing" THEN conn[i][1] ELSE conn[i][2]
        to == IF direction = "outgoing" THEN conn[i][2] ELSE conn[i][1]
    IN /\ from = args.item_id
       /\ args.returns = "edges" => IsTuple(to)
       /\ args.returns = "nodes" => IsInt(to)
       /\ \A v \in 1..Len(args.via_ids) :
              \E j \in 1..Len(conn) : conn[j] = <<args.via_ids[v], conn[i]>>

\* The other ends of the selected edges, in edge-sequence order.
Half(direction) ==
    LET picked == SelectSeq([i \in 1..Len(conn) |-> i],
                            LAMBDA i : Selected(i, direction))
    IN [k \in 1..Len(picked) |->
           IF direction = "outgoing" THEN conn[picked[k]][2] ELSE conn[picked[k]][1]]

\* C8: connected(item, *via_ids, direction='either') yields the incoming
\* results followed by the outgoing results, each half in edge-sequence
\* order and without deduplication, for every item, via list and filter.
C8_EitherIsIncomingThenOutgoing ==
    op = "connected" /\ args.direction = "either" =>
        out = Half("incoming") \o Half("outgoing")

\* An 'either' query through a via id with results in both halves.
C8_Witness ==
    /\ op = "connected"
    /\ args.direction = "either"
    /\ args.via_ids # <<>>
    /\ Half("incoming") # <<>>
    /\ Half("outgoing") # <<>>

\* Some edge of the document has e as its destination.
IsDestination(e) == \E j \in 1..Len(conn) : conn[j][2] = e

\* What C9 says of a call of as_hypergraph that produced out.
HypergraphContract ==
    IF args.remove_subsumed
      THEN out.raised = "" =>
             \A k \in 1..Len(out.value) : \A i \in 1..Len(conn) :
                 out.value[k] = Unfold(conn[i], "outgoing") => ~IsDestination(conn[i])
      ELSE \A i \in 1..Len(conn) :
               /\ out.raised = ""
               /\ Len(out.value) = Len(conn)
               /\ out.value[i] = Unfold(conn[i], "outgoing")

\* C9 as stated: in every document without dangling edge references,
\* as_hypergraph(remove_subsumed=True) contains the flattening of an edge only
\* if no edge has it as destination, and as_hypergraph(remove_subsumed=False)
\* flattens every edge, one hyperedge per edge in edge-sequence order.
C9_HypergraphAnyMode ==
    op = "as_hypergraph" /\ NoDangling(conn) => HypergraphContract

\* C9 amended: the same in every such document whose mode is absent or one
\* of T, property_graph, edge_colored_graph, graph; as_hypergraph raises
\* ValueError in a document of mode H.
C9_HypergraphAllowedMode ==
    op = "as_hypergraph" /\ NoDangling(conn) =>
        IF mode = <<>> \/ mode[1] \in HypergraphModes
          THEN out.raised = "" /\ HypergraphContract
          ELSE out = Raise("ValueError")

\* A document with a subsumed edge, which remove_subsumed leaves out.
C9_Witness ==
    /\ op = "as_hypergraph"
    /\ args.remove_subsumed
    /\ out.raised = ""
    /\ \E i \in 1..Len(conn) : IsDestination(conn[i])
    /\ out.value # <<>>
    /\ Len(out.value) < Len(conn)

\* The ungated computation of the call the state records.
GatedBody ==
    CASE op = "node_types" -> NodeTypesBody
      [] op = "synthesize_structure" ->
           SynthesizeStructureBody(args.type_1, args.type_2, args.type_3)
      [] op = "as_objects" ->
           AsObjectsBody(args.type_1, args.type_2, args.type_3, args.cls)

ModeGate ==
    op \in Gated =>
        IF mode = <<>> \/ mode[1] \in PropertyGraphModes
          THEN out = GatedBody /\ out.raised # "ValueError"
          ELSE out = Raise("ValueError")

\* C10: node_types, synthesize_structure and as_objects raise ValueError
\* whenever the document declares a mode other than property_graph or
\* edge_colored_graph (H, T and graph included) and run their computation
\* when it declares none or one of the two; the document is unchanged.
C10_ModeGate ==
    /\ []ModeGate
    /\ [][op' \in Gated => UNCHANGED <<data, conn, mode>>]_vars

\* materialization refused in a document of mode graph
C10_Witness ==
    /\ op = "as_objects"
    /\ mode = <<"graph">>
    /\ out = Raise("ValueError")

----------------------------------------------------------------------------
(* Properties of synthesize_structure on property graphs *)

RelationNode == <<MaxItem + 1>>

\* The edges tagged by the relation node, in edge-sequence order.
TaggedEdges ==
    LET picked == SelectSeq(conn, LAMBDA e : e[1] = RelationNode)
    IN [k \in 1..Len(picked) |-> picked[k][2]]

\* The relation node is of type 2 and its tagged edges are item-to-tag.
ItemToTag ==
    /\ op = "synthesize_structure"
    /\ RelationNode \in args.type_2
    /\ \A k \in 1..Len(TaggedEdges) :
           /\ IsTuple(TaggedEdges[k])
           /\ TaggedEdges[k][1] \in args.type_3
           /\ TaggedEdges[k][2] \in args.type_1

\* The type of the field the class has for the relation node, "" if none.
RelationFieldType ==
    IF out.raised # "" THEN ""
    ELSE LET named == SelectSeq(out.value.fields,
                                LAMBDA f : f.name = Names[MaxItem + 2])
         IN IF named = <<>> THEN "" ELSE named[1].type

====
